---- MODULE Spec2Model ----
(***************************************************************************)
(* Shadow-boxing interval timer (src/app.js): the training workout's      *)
(* phase timer, its pause/resume/resync/stop commands, the combo schedule *)
(* and the browser timers they leave pending.                             *)
(*                                                                         *)
(* Time is wall-clock milliseconds (Date.now()).  The browser is modelled *)
(* by `now`, the set of pending one-shot timeouts, and the live intervals. *)
(* A callback runs at some instant at or after its due time.              *)
(***************************************************************************)
EXTENDS Integers, Sequences, FiniteSets

VARIABLES
    state,      \* the `state` object of app.js (workout fields)
    elements,   \* the DOM controls and texts the workout code reads and writes
    now,        \* Date.now()
    timers,     \* the browser's pending timeouts and live intervals
    usedComboIndices, \* per difficulty, the library indices used in this shuffle epoch
    wakeLock,   \* the screen wake lock: the module variable, the requests under way,
                \* the sentinels the browser holds
    streak,     \* the completion log, its copy in localStorage, the streak figures,
                \* and the calendar day
    breathing,  \* the breathing fields of `state`, the texts of the breathing tab and
                \* the live one-second intervals
    audio,      \* the sources the audio context is playing
    free,       \* the free timer: its state fields, interval and timeouts
    fx,         \* what the last handler did: its name, the cues it played, ...
    hist        \* history: phases entered since the last start, state at the last pause,
                \* the seconds the ticks of the current phase saw and cued

vars == <<state, elements, now, timers, usedComboIndices, wakeLock, streak, breathing, audio,
          free, fx, hist>>

-----------------------------------------------------------------------------
(* Bounds of the model *)

\* wall-clock horizon in ms: time does not advance beyond it
MaxNow == 10000
\* the horizon of the runs whose interval fires late
MaxJitterNow == 6000
\* the horizon of the runs whose interval fires exactly on time
MaxExactNow == 15000
\* the round-count control offers 1..MaxRounds
MaxRounds == 2
\* the horizon of the free-timer runs
MaxFreeNow == 10000
\* the user clicks or changes a control at most MaxClicks times
MaxClicks == 4
\* the calendar runs from day 0 to day MaxDay
MaxDay == 3
\* at most MaxSounding sources play at once
MaxSounding == 3

\* amounts of time (ms) that may pass between two callbacks or clicks
Steps == {1000, 2000}
\* amounts of time (ms) that may pass at once while the free timer runs
FreeSteps == {200}
\* values the free-timer controls offer (rounds, seconds, seconds)
FreeRoundCountOptions == {<<"1">>, <<"2">>}
FreeRoundDurationOptions == {<<"1">>}
FreeRestDurationOptions == {<<"1">>}
\* values the duration controls offer (seconds)
RoundDurationOptions == {<<"2">>, <<"3">>}
RestDurationOptions == {<<"1">>}
\* values the combo-interval control offers (seconds)
ComboIntervalOptions == {<<"4">>}
\* values the difficulty control offers ("easy" schedules like "medium")
Difficulties == {"medium", "hard"}
\* draws of Math.random() * 2000 - 1000
Variances == {-1000, 500}
\* the period of the timer interval: setInterval(updateTimer, 50)
TickPeriod == 50
\* the number of combos in each tier of COMBO_LIBRARY (10 to 15 in app.js)
LibraryLength == 4
\* the tiers of COMBO_LIBRARY
Tiers == {"easy", "medium", "hard"}

-----------------------------------------------------------------------------
(* Values *)

\* null / undefined as the empty option, a value v as {v}
Null == {}
Some(v) == {v}
Get(o) == CHOOSE v \in o : TRUE
\* a nullable number used in arithmetic: null counts as 0
Num(o) == IF o = Null THEN 0 ELSE Get(o)

DigitChars == <<"0", "1", "2", "3", "4", "5", "6", "7", "8", "9">>

DigitValue(c) == (CHOOSE i \in 1..10 : DigitChars[i] = c) - 1

\* Number.prototype.toString() of a non-negative integer, as a sequence of characters
RECURSIVE ToString(_)
ToString(n) ==
    IF n < 10 THEN <<DigitChars[n + 1]>>
    ELSE ToString(n \div 10) \o <<DigitChars[(n % 10) + 1]>>

\* NaN, set apart from the numbers of the model, none of which is negative
NaN == -1

\* a + b and a * b, which are NaN if an operand is
Plus(a, b) == IF a = NaN \/ b = NaN THEN NaN ELSE a + b
Times(a, b) == IF a = NaN \/ b = NaN THEN NaN ELSE a * b

\* !value of a nullable number: null, 0 and NaN are falsy
Falsy(o) == o = Null \/ Get(o) = 0 \/ Get(o) = NaN

IsDigit(c) == \E i \in 1..10 : DigitChars[i] = c

\* the decimal digits a string begins with
RECURSIVE LeadingDigits(_)
LeadingDigits(str) ==
    IF str = <<>> \/ ~IsDigit(Head(str)) THEN <<>>
    ELSE <<Head(str)>> \o LeadingDigits(Tail(str))

\* the value of a non-empty string of decimal digits
RECURSIVE DigitsValue(_)
DigitsValue(str) ==
    IF Len(str) = 1 THEN DigitValue(str[1])
    ELSE DigitsValue(SubSeq(str, 1, Len(str) - 1)) * 10 + DigitValue(str[Len(str)])

\* parseInt: the value of the digits the string begins with, NaN if there is none
ParseInt(str) ==
    IF LeadingDigits(str) = <<>> THEN NaN ELSE DigitsValue(LeadingDigits(str))

\* String.prototype.includes
Includes(text, sub) ==
    \E i \in 1..(Len(text) - Len(sub) + 1) : SubSeq(text, i, i + Len(sub) - 1) = sub

\* the template `${a} / ${b}` of the round counter
RoundCounterText(a, b) == ToString(a) \o <<" ", "/", " ">> \o ToString(b)

RoundCountOptions == {ToString(n) : n \in 1..MaxRounds}

Cue(file) == [file |-> file, n |-> 0]
RoundCue(n) == [file |-> "round_", n |-> n]

NumberCue(n) == [file |-> "count", n |-> n]

Max(a, b) == IF a >= b THEN a ELSE b

Phases == {"idle", "prepare", "work", "rest", "paused", "finished"}

-----------------------------------------------------------------------------
(* The world a handler runs in, and what it can do to the browser *)

\* the values a handler reads and writes, gathered so that handlers compose as
\* the functions of app.js call one another
World(op) ==
    [s |-> state, el |-> elements, now |-> now, t |-> timers, used |-> usedComboIndices,
     wl |-> wakeLock, sk |-> streak, b |-> breathing, au |-> audio, f |-> free,
     \* history: the record of the last pause is kept until the step after the resume
     h |-> [hist EXCEPT !.pausedFrom = IF state.workoutState = "paused" THEN @ ELSE Null],
     fx |-> [op |-> op, from |-> state.workoutState, cues |-> {},
             complete |-> FALSE, combo |-> FALSE, stale |-> FALSE, pick |-> Null, notes |-> {}]]

\* the audio files there are: round announcements exist for rounds 1 to 12
AudioExists(cue) == cue.file = "round_" => cue.n \in 1..12

\* audioManager.play(file, priority): the cue sounds, unless its file fails to
\* load (load() returns null and play() returns without a sound)
Play(w, cue) == IF AudioExists(cue) THEN [w EXCEPT !.fx.cues = @ \cup {cue}] ELSE w

\* setTimeout(callback, delay): a pending one-shot callback of the given kind
SetTimeout(w, kind, delay) ==
    [w EXCEPT !.t.timeouts = @ \cup {[kind |-> kind, due |-> w.now + delay, stale |-> FALSE]}]

\* clearInterval(state.timerInterval): the interval the handle names stops
ClearTimerInterval(w) ==
    IF w.s.timerInterval = "live" THEN [w EXCEPT !.s.timerInterval = "cleared"] ELSE w

\* clearInterval(state.comboInterval)
ClearComboInterval(w) ==
    IF w.s.comboInterval = "live"
    THEN [w EXCEPT !.s.comboInterval = "cleared", !.t.combo = Null]
    ELSE w

\* history: a phase was entered
Entered(w, phase) == [w EXCEPT !.h.log = Append(@, phase), !.h.entered = w.now]

-----------------------------------------------------------------------------
(* Combo generation and its schedule *)

\* the values of a sequence
Range(seq) == {seq[i] : i \in 1..Len(seq)}

\* the draws Math.floor(Math.random() * combos.length) may make in one call of
\* generateCombo, in order; a draw that repeats a rejected one is rejected
\* again, so each value is listed once
RandomDraws ==
    {ds \in [1..(LibraryLength - 2) -> 0..(LibraryLength - 1)] :
        \A i, j \in 1..(LibraryLength - 2) : ds[i] = ds[j] => i = j}

\* the draws followed in the runs of a workout: the indices in ascending order
WorkoutDraws == {[i \in 1..(LibraryLength - 2) |-> i - 1]}

\* the do-while loop of generateCombo: the first draw that `used` does not
\* include; Null if every draw is included (the loop goes on)
RECURSIVE FirstUnused(_, _)
FirstUnused(draws, used) ==
    IF draws = <<>> THEN Null
    ELSE IF Head(draws) \in Range(used) THEN FirstUnused(Tail(draws), used)
    ELSE Some(Head(draws))

\* generateCombo() that takes its first draw, with no look at the used list
GenerateCombo_SingleDraw(w, draws) ==
    LET difficulty == w.s.difficulty
        used == IF Len(w.used[difficulty]) >= LibraryLength - 2 THEN <<>> ELSE w.used[difficulty]
        comboIndex == Some(Head(draws))
    IN  [w EXCEPT !.used[difficulty] = Append(used, Get(comboIndex)),
                  !.fx.combo = TRUE,
                  !.fx.pick = comboIndex,
                  !.fx.notes = @ \cup (IF used # w.used[difficulty] THEN {"reset"} ELSE {})]

\* generateCombo() that resets the used list only when one index is left unused
GenerateCombo_ResetAtOneLeft(w, draws) ==
    LET difficulty == w.s.difficulty
        used == IF Len(w.used[difficulty]) >= LibraryLength - 1 THEN <<>> ELSE w.used[difficulty]
        comboIndex == FirstUnused(draws, used)
    IN  IF comboIndex = Null THEN [w EXCEPT !.used[difficulty] = used]
        ELSE [w EXCEPT !.used[difficulty] = Append(used, Get(comboIndex)),
                       !.fx.combo = TRUE,
                       !.fx.pick = comboIndex,
                       !.fx.notes = @ \cup (IF used # w.used[difficulty] THEN {"reset"} ELSE {})]

\* generateCombo(): a combo is chosen, shown and announced
GenerateCombo(w, draws) ==
    LET difficulty == w.s.difficulty
        used == IF Len(w.used[difficulty]) >= LibraryLength - 2 THEN <<>> ELSE w.used[difficulty]
        comboIndex == FirstUnused(draws, used)
    IN  IF comboIndex = Null THEN [w EXCEPT !.used[difficulty] = used]
        ELSE [w EXCEPT !.used[difficulty] = Append(used, Get(comboIndex)),
                       !.fx.combo = TRUE,
                       !.fx.pick = comboIndex,
                       \* history: the call emptied the used list
                       !.fx.notes = @ \cup (IF used # w.used[difficulty] THEN {"reset"} ELSE {})]

\* the interval in seconds startComboInterval settles on
ComboIntervalSec(difficulty, intervalSec) ==
    IF difficulty = "hard" /\ intervalSec < 8 THEN 8 ELSE intervalSec

\* startComboInterval() without the clearInterval of the old schedule
StartComboInterval_NoClear(w, rv) ==
    LET w1 == w
        ms == ComboIntervalSec(w1.s.difficulty, ParseInt(w1.el.comboIntervalSelect)) * 1000
    IN  [w1 EXCEPT !.s.comboIntervalMs = ms,
                   !.s.comboInterval = "live",
                   !.t.orphanCombos = @ + (IF w1.s.comboInterval = "live" THEN 1 ELSE 0),
                   !.t.combo = Some([period |-> ms + rv, due |-> w1.now + ms + rv]),
                   !.fx.notes = @ \cup {"randomVariance"}]

\* startComboInterval(); rv is the one draw of randomVariance()
StartComboInterval(w, rv) ==
    LET w1 == ClearComboInterval(w)
        ms == ComboIntervalSec(w1.s.difficulty, ParseInt(w1.el.comboIntervalSelect)) * 1000
    IN  [w1 EXCEPT !.s.comboIntervalMs = ms,
                   !.s.comboInterval = "live",
                   \* an interval the old handle still named would go on running,
                   \* unreferenced
                   !.t.orphanCombos = @ + (IF w1.s.comboInterval = "live" THEN 1 ELSE 0),
                   !.t.combo = Some([period |-> ms + rv, due |-> w1.now + ms + rv]),
                   \* history: randomVariance() was called
                   !.fx.notes = @ \cup {"randomVariance"}]

\* the callback of the combo interval
ComboIntervalCallback(w, draws) ==
    IF w.s.workoutState = "work" /\ Num(w.s.endDate) - w.now > 12000
    THEN GenerateCombo(w, draws)
    ELSE w

-----------------------------------------------------------------------------
(* The screen wake lock *)

\* requestWakeLock(): the request is under way until the browser settles it
RequestWakeLock(w) == [w EXCEPT !.wl.pending = @ + 1]

\* releaseWakeLock(): the sentinel the variable refers to is released
ReleaseWakeLock(w) ==
    IF w.wl.wakeLock
    THEN [w EXCEPT !.wl.held = @ - 1, !.wl.wakeLock = FALSE]
    ELSE w

\* the await of requestWakeLock() ends: with a new sentinel, which the variable
\* then refers to, or with an error, which is logged
WakeLockSettles(w, granted) ==
    IF granted
    THEN [w EXCEPT !.wl.pending = @ - 1, !.wl.held = @ + 1, !.wl.wakeLock = TRUE]
    ELSE [w EXCEPT !.wl.pending = @ - 1]

-----------------------------------------------------------------------------
(* The completion log and the streak.  A calendar date is a day number; the *)
(* clock gives the UTC day (toISOString) and the local day (setHours).      *)

\* where the device is: west of UTC the local day is the UTC day or the one
\* before, east of UTC the UTC day or the one after
Zones == {"west", "utc", "east"}

StreakInit(zone) ==
    [completions |-> <<>>, currentStreak |-> 0, totalWorkouts |-> 0,
     storage |-> Null, zone |-> zone, today |-> 0, local |-> 0]

\* new Date(dateString) followed by setHours(0, 0, 0, 0): a date-only string
\* is midnight UTC, which west of UTC is the evening of the day before
ParseAtLocalMidnight(zone, day) == IF zone = "west" THEN day - 1 ELSE day

\* [...completions].sort().reverse()
RECURSIVE SortReverse(_)
SortReverse(seq) ==
    IF seq = <<>> THEN <<>>
    ELSE LET i == CHOOSE i \in 1..Len(seq) : \A j \in 1..Len(seq) : seq[j] <= seq[i]
         IN  <<seq[i]>> \o SortReverse(SubSeq(seq, 1, i - 1) \o SubSeq(seq, i + 1, Len(seq)))

\* the for loop of calculateStreak from index i (1-based): the days that
\* follow one another without a gap
RECURSIVE ConsecutiveFrom(_, _, _)
ConsecutiveFrom(zone, sortedDates, i) ==
    IF i > Len(sortedDates) THEN 0
    ELSE IF ParseAtLocalMidnight(zone, sortedDates[i - 1])
                - ParseAtLocalMidnight(zone, sortedDates[i]) = 1
         THEN 1 + ConsecutiveFrom(zone, sortedDates, i + 1)
         ELSE 0

\* calculateStreak()
CalculateStreak(w) ==
    IF Len(w.sk.completions) = 0
    THEN [w EXCEPT !.sk.currentStreak = 0, !.sk.totalWorkouts = 0]
    ELSE LET sortedDates == SortReverse(w.sk.completions)
             todayValue == w.sk.local
             lastDate == ParseAtLocalMidnight(w.sk.zone, sortedDates[1])
             diffDays == todayValue - lastDate
             streakDays == IF diffDays <= 1
                           THEN 1 + ConsecutiveFrom(w.sk.zone, sortedDates, 2)
                           ELSE 0
         IN  [w EXCEPT !.sk.totalWorkouts = Len(w.sk.completions),
                       !.sk.currentStreak = streakDays]

\* saveWorkoutCompletion() that logs the day without a look at the log
SaveWorkoutCompletion_NoIncludesCheck(w) ==
    LET today == w.sk.today
        w1 == [w EXCEPT !.sk.completions = Append(@, today)]
    IN  CalculateStreak([w1 EXCEPT !.sk.storage = Some(w1.sk.completions)])

\* saveWorkoutCompletion()
SaveWorkoutCompletion(w) ==
    LET today == w.sk.today
    IN  IF today \notin Range(w.sk.completions)
        THEN LET w1 == [w EXCEPT !.sk.completions = Append(@, today)]
             IN  CalculateStreak([w1 EXCEPT !.sk.storage = Some(w1.sk.completions)])
        ELSE [w EXCEPT !.fx.notes = @ \cup {"logged already"}]

\* loadStreakData()
LoadStreakData(w) ==
    LET saved == w.sk.storage
    IN  IF saved # Null
        THEN CalculateStreak([w EXCEPT !.sk.completions = Get(saved)])
        ELSE w

-----------------------------------------------------------------------------
(* The breathing exercise *)

Exercises == {"box", "478", "resonant"}

\* BREATHING_PATTERNS: per exercise, the phases of one cycle
BREATHING_PATTERNS ==
    [e \in Exercises |->
        IF e = "box"
        THEN <<[phase |-> "Nefes Al", duration |-> 4, audio |-> "inhale"],
               [phase |-> "Tut", duration |-> 4, audio |-> "hold"],
               [phase |-> "Nefes Ver", duration |-> 4, audio |-> "exhale"],
               [phase |-> "Tut", duration |-> 4, audio |-> "hold"]>>
        ELSE IF e = "478"
        THEN <<[phase |-> "Nefes Al", duration |-> 4, audio |-> "inhale"],
               [phase |-> "Tut", duration |-> 7, audio |-> "hold"],
               [phase |-> "Nefes Ver", duration |-> 8, audio |-> "exhale"]>>
        ELSE <<[phase |-> "Nefes Al", duration |-> 5, audio |-> "inhale"],
               [phase |-> "Nefes Ver", duration |-> 5, audio |-> "exhale"]>>]

\* `intervals` holds the live one-second intervals with the variables of their
\* closure, `started` numbers them; `obs` is history: the callbacks run and the
\* phase advances made since the session started, whether totalCycles stayed
\* as it was, and how often the completion cue was played
BreathingInit ==
    [active |-> FALSE, currentExercise |-> "box", currentCycle |-> 0, totalCycles |-> 5,
     breathInterval |-> Null, intervals |-> {}, started |-> 0,
     breathPhase |-> "", breathTimer |-> 0, cardsDisabled |-> FALSE,
     obs |-> [ticks |-> 0, advances |-> 0, fixed |-> TRUE, completeCues |-> 0]]

\* updatePhase() of the closure iv
UpdatePhase(w, iv) ==
    LET phase == BREATHING_PATTERNS[iv.exercise][iv.phaseIndex + 1]
    IN  Play([w EXCEPT !.b.breathPhase = phase.phase, !.b.breathTimer = iv.countdown],
             Cue(phase.audio))

\* runBreathingCycle()
RunBreathingCycle(w) ==
    LET pattern == BREATHING_PATTERNS[w.b.currentExercise]
        iv == [id |-> w.b.started + 1, exercise |-> w.b.currentExercise,
               phaseIndex |-> 0, countdown |-> pattern[1].duration]
        w1 == UpdatePhase(w, iv)
    IN  [w1 EXCEPT !.b.intervals = @ \cup {iv},
                   !.b.breathInterval = Some(iv.id),
                   !.b.started = iv.id]

\* stopBreathing() that leaves the interval running
StopBreathing_KeepsInterval(w) ==
    LET w1 == [w EXCEPT !.b.active = FALSE,
                        !.b.breathPhase = "Hazir",
                        !.b.breathTimer = 0,
                        !.b.cardsDisabled = FALSE]
    IN  ReleaseWakeLock(w1)

\* stopBreathing()
StopBreathing(w) ==
    LET w1 == [w EXCEPT !.b.active = FALSE,
                        !.b.intervals = {iv \in @ : Some(iv.id) # w.b.breathInterval},
                        !.b.breathPhase = "Hazir",
                        !.b.breathTimer = 0,
                        !.b.cardsDisabled = FALSE]
    IN  ReleaseWakeLock(w1)

\* startBreathing(): the click listener of the start button
StartBreathing(w) ==
    IF w.b.active THEN StopBreathing(w)
    ELSE LET w1 == [w EXCEPT !.b.active = TRUE,
                             !.b.currentCycle = 0,
                             !.b.cardsDisabled = TRUE,
                             !.b.obs = [ticks |-> 0, advances |-> 0, fixed |-> TRUE,
                                        completeCues |-> 0]]
         IN  RequestWakeLock(RunBreathingCycle(w1))

\* the interval callback that ends the session one cycle early
BreathIntervalCallback_OneCycleEarly(w, iv) ==
    IF ~w.b.active THEN w
    ELSE
    LET pattern == BREATHING_PATTERNS[iv.exercise]
        countdown == iv.countdown - 1
        w1 == [w EXCEPT !.b.breathTimer = countdown, !.b.obs.ticks = @ + 1]
        Closure(wx, c) == [wx EXCEPT !.b.intervals = (@ \ {iv}) \cup {c}]
    IN  IF countdown <= 0
        THEN LET phaseIndex == iv.phaseIndex + 1
                 w2 == [w1 EXCEPT !.b.obs.advances = @ + 1]
             IN  IF phaseIndex >= Len(pattern)
                 THEN LET w3 == [w2 EXCEPT !.b.currentCycle = @ + 1]
                      IN  IF w3.b.currentCycle >= w3.b.totalCycles - 1
                          THEN LET c == [iv EXCEPT !.phaseIndex = phaseIndex,
                                                   !.countdown = countdown]
                                   w4 == StopBreathing(Closure(w3, c))
                               IN  Play([w4 EXCEPT !.b.obs.completeCues = @ + 1],
                                        Cue("breathe_complete"))
                          ELSE LET c == [iv EXCEPT !.phaseIndex = 0,
                                                   !.countdown = pattern[1].duration]
                               IN  UpdatePhase(Closure(w3, c), c)
                 ELSE LET c == [iv EXCEPT !.phaseIndex = phaseIndex,
                                          !.countdown = pattern[phaseIndex + 1].duration]
                      IN  UpdatePhase(Closure(w2, c), c)
        ELSE Closure(w1, [iv EXCEPT !.countdown = countdown])

\* the callback of the one-second interval whose closure is iv
BreathIntervalCallback(w, iv) ==
    IF ~w.b.active THEN w
    ELSE
    LET pattern == BREATHING_PATTERNS[iv.exercise]
        countdown == iv.countdown - 1
        w1 == [w EXCEPT !.b.breathTimer = countdown, !.b.obs.ticks = @ + 1]
        \* the variables of the closure after the callback
        Closure(wx, c) == [wx EXCEPT !.b.intervals = (@ \ {iv}) \cup {c}]
    IN  IF countdown <= 0
        THEN LET phaseIndex == iv.phaseIndex + 1
                 w2 == [w1 EXCEPT !.b.obs.advances = @ + 1]
             IN  IF phaseIndex >= Len(pattern)
                 THEN LET w3 == [w2 EXCEPT !.b.currentCycle = @ + 1]
                      IN  IF w3.b.currentCycle >= w3.b.totalCycles
                          THEN LET c == [iv EXCEPT !.phaseIndex = phaseIndex,
                                                   !.countdown = countdown]
                                   w4 == StopBreathing(Closure(w3, c))
                               IN  Play([w4 EXCEPT !.b.obs.completeCues = @ + 1],
                                        Cue("breathe_complete"))
                          ELSE LET c == [iv EXCEPT !.phaseIndex = 0,
                                                   !.countdown = pattern[1].duration]
                               IN  UpdatePhase(Closure(w3, c), c)
                 ELSE LET c == [iv EXCEPT !.phaseIndex = phaseIndex,
                                          !.countdown = pattern[phaseIndex + 1].duration]
                      IN  UpdatePhase(Closure(w2, c), c)
        ELSE Closure(w1, [iv EXCEPT !.countdown = countdown])

\* the click listener of an exercise card
ExerciseCardListener(w, exercise) ==
    IF w.b.active THEN w ELSE [w EXCEPT !.b.currentExercise = exercise]

\* the click listener of cycleMinus
CycleMinusListener(w) ==
    IF w.b.totalCycles > 1
    THEN [w EXCEPT !.b.totalCycles = @ - 1, !.b.obs.fixed = @ /\ ~w.b.active]
    ELSE w

\* the click listener of cyclePlus
CyclePlusListener(w) ==
    IF w.b.totalCycles < 20
    THEN [w EXCEPT !.b.totalCycles = @ + 1, !.b.obs.fixed = @ /\ ~w.b.active]
    ELSE w

-----------------------------------------------------------------------------
(* The audio manager *)

\* the files played in the runs of the audio manager
AudioFiles == {"bell_start", "beep", "get_ready"}

\* AudioManager.play(file, priority): once the buffer is there a new source is
\* connected and started; loaded is whether load() gave a buffer
AudioManagerPlay(w, file, priority, loaded) ==
    LET w1 == [w EXCEPT !.fx.notes = @ \cup (IF priority THEN {"priority"} ELSE {})]
    IN  IF loaded
        THEN [w1 EXCEPT !.au.sounding = Append(@, file), !.fx.cues = {Cue(file)}]
        ELSE w1

\* AudioManager.stop(): its body is a comment
AudioManagerStop(w) == w

-----------------------------------------------------------------------------
(* The free timer *)

\* the free-timer fields of state; sessions, finished and ended are history:
\* the number of sessions started, when the last round of the session under
\* way finished, and how the last session that ended was stopped
FreeInit ==
    [freeTimerActive |-> FALSE, freeRound |-> 0, freeTotalRounds |-> 6,
     freeRoundDuration |-> 180, freeRestDuration |-> 60, freeState |-> "idle",
     freeInterval |-> Null, timeouts |-> {},
     sessions |-> 0, finished |-> Null, ended |-> Null]

\* state.freeInterval = setInterval(callback, 1000): kind names the closure,
\* n is its local countdown or remaining
FreeSetInterval(w, kind, n) ==
    [w EXCEPT !.f.freeInterval = Some([kind |-> kind, n |-> n, due |-> w.now + 1000])]

\* clearInterval(state.freeInterval)
FreeClearInterval(w) == [w EXCEPT !.f.freeInterval = Null]

\* setTimeout(callback, delay) of the free timer; the session that set it is
\* history
FreeSetTimeout(w, kind, delay) ==
    [w EXCEPT !.f.timeouts = @ \cup {[kind |-> kind, due |-> w.now + delay,
                                      session |-> w.f.sessions]}]

\* runFreePrepare()
RunFreePrepare(w) ==
    LET w1 == [w EXCEPT !.f.freeState = "prepare"]
        w2 == IF w1.s.voiceEnabled THEN Play(w1, Cue("get_ready")) ELSE w1
    IN  FreeSetInterval(w2, "prepare", 3)

\* runFreeWork()
RunFreeWork(w) ==
    LET w1 == [w EXCEPT !.f.freeState = "work", !.f.freeRound = @ + 1]
        w2 == Play(w1, Cue("bell_start"))
        w3 == IF w2.s.voiceEnabled THEN FreeSetTimeout(w2, "freeRoundAnnounce", 800) ELSE w2
    IN  FreeSetInterval(w3, "work", w3.f.freeRoundDuration)

\* runFreeRest()
RunFreeRest(w) ==
    LET w1 == [w EXCEPT !.f.freeState = "rest"]
        w2 == Play(w1, Cue("bell_end"))
        w3 == IF w2.s.voiceEnabled THEN FreeSetTimeout(w2, "freeRestAnnounce", 600) ELSE w2
    IN  FreeSetInterval(w3, "rest", w3.f.freeRestDuration)

\* finishFreeWorkout()
FinishFreeWorkout(w) ==
    LET w1 == IF w.s.voiceEnabled
              THEN FreeSetTimeout(Play(w, Cue("bell_end")), "freeCompleteAnnounce", 600)
              ELSE w
        w2 == SaveWorkoutCompletion(w1)
    IN  FreeSetTimeout([w2 EXCEPT !.f.finished = Some(w2.now)], "freeStop", 5000)

\* startFreeTimer(); rc, rd and rs are the values of the three controls
StartFreeTimer(w, rc, rd, rs) ==
    LET w1 == [w EXCEPT !.f.freeTimerActive = TRUE,
                        !.f.freeRound = 0,
                        !.f.freeTotalRounds = ParseInt(rc),
                        !.f.freeRoundDuration = ParseInt(rd),
                        !.f.freeRestDuration = ParseInt(rs),
                        !.f.sessions = @ + 1,
                        !.f.finished = Null]
    IN  RequestWakeLock(RunFreePrepare(w1))

\* stopFreeTimer()
StopFreeTimer(w) ==
    ReleaseWakeLock(FreeClearInterval([w EXCEPT !.f.freeTimerActive = FALSE]))

\* history: the session under way was ended by the user or by a timeout that
\* the session of the given number had set
FreeEnded(w, by, setIn) ==
    [w EXCEPT !.f.ended = Some([by |-> by, setIn |-> setIn, session |-> w.f.sessions,
                                at |-> w.now, finished |-> w.f.finished])]

\* the countdown cues of the work and rest intervals
FreeCountdownCues(w, remaining) ==
    IF remaining <= 10 /\ remaining > 0 /\ w.s.voiceEnabled
    THEN IF remaining = 10 THEN Play(w, Cue("last_10_seconds"))
         ELSE IF remaining <= 3 THEN Play(w, NumberCue(remaining))
         ELSE Play(w, Cue("beep"))
    ELSE w

\* the callbacks of the three intervals; iv is the interval that fires
FreeIntervalCallback(w, iv) ==
    LET n  == iv.n - 1
        w1 == [w EXCEPT !.f.freeInterval = Some([iv EXCEPT !.n = n, !.due = iv.due + 1000])]
    IN  IF iv.kind = "prepare"
        THEN IF n <= 0 THEN RunFreeWork(FreeClearInterval(w1)) ELSE w1
        ELSE LET w2 == FreeCountdownCues(w1, n)
             IN  IF n > 0 THEN w2
                 ELSE IF iv.kind = "rest" THEN RunFreeWork(FreeClearInterval(w2))
                 ELSE IF w2.f.freeRound < w2.f.freeTotalRounds
                      THEN RunFreeRest(FreeClearInterval(w2))
                      ELSE FinishFreeWorkout(FreeClearInterval(w2))

\* the callbacks of the free timer's timeouts; to is the timeout that fires
FreeTimeoutCallback(w, to) ==
    IF to.kind = "freeRoundAnnounce"
    THEN IF w.f.freeTimerActive /\ w.f.freeState = "work"
         THEN Play(w, RoundCue(w.f.freeRound))
         ELSE w
    ELSE IF to.kind = "freeRestAnnounce"
    THEN IF w.f.freeTimerActive /\ w.f.freeState = "rest" THEN Play(w, Cue("rest")) ELSE w
    ELSE IF to.kind = "freeCompleteAnnounce" THEN Play(w, Cue("workout_complete"))
    ELSE IF w.f.freeTimerActive
         THEN StopFreeTimer(FreeEnded(w, "timeout", to.session))
         ELSE w

\* the click listener of btnFreeStart
BtnFreeStartListener(w, rc, rd, rs) ==
    IF ~w.f.freeTimerActive
    THEN StartFreeTimer(w, rc, rd, rs)
    ELSE StopFreeTimer(FreeEnded(w, "user", w.f.sessions))

\* the click listener of btnFreeStop
BtnFreeStopListener(w) == StopFreeTimer(FreeEnded(w, "user", w.f.sessions))

-----------------------------------------------------------------------------
(* Phase handlers *)

\* the countdown cue with the second before taken 100 ms back instead of 50
CountdownCues_WideEpsilon(remaining) ==
    LET currentSecond == remaining \div 1000
        prevSecond == (remaining + 100) \div 1000
    IN  IF remaining <= 10000 /\ remaining > 0 /\ currentSecond # prevSecond
        THEN IF currentSecond = 9 THEN {Cue("last_10_seconds")}
             ELSE IF currentSecond <= 2 /\ currentSecond >= 0 THEN {NumberCue(currentSecond + 1)}
             ELSE IF currentSecond < 9 /\ currentSecond > 2 THEN {Cue("beep")}
             ELSE {}
        ELSE {}

\* the countdown cue updateTimer plays with `remaining` ms left
CountdownCues(remaining) ==
    LET currentSecond == remaining \div 1000
        prevSecond == (remaining + 50) \div 1000
    IN  IF remaining <= 10000 /\ remaining > 0 /\ currentSecond # prevSecond
        THEN IF currentSecond = 9 THEN {Cue("last_10_seconds")}
             ELSE IF currentSecond <= 2 /\ currentSecond >= 0 THEN {NumberCue(currentSecond + 1)}
             ELSE IF currentSecond < 9 /\ currentSecond > 2 THEN {Cue("beep")}
             ELSE {}
        ELSE {}

\* startWorkPhase() that leaves the round counter as it is
StartWorkPhase_NoIncrement(w) ==
    LET roundDuration == ParseInt(w.el.roundDuration)
        w1 == [w EXCEPT !.s.workoutState = "work",
                        !.el.roundCounter = RoundCounterText(w.s.currentRound, w.s.totalRounds),
                        !.s.roundDuration = roundDuration,
                        !.s.endDate = Some(w.now + roundDuration * 1000)]
        w2 == Play(w1, Cue("bell_start"))
        w3 == IF w2.s.voiceEnabled THEN SetTimeout(w2, "roundAnnounce", 800) ELSE w2
        w4 == SetTimeout(w3, "comboStart", 2000)
    IN  RequestWakeLock(Entered(w4, "work"))

\* startWorkPhase() that adds the round to the deadline of the phase that ended
StartWorkPhase_FromOldDeadline(w) ==
    LET round == w.s.currentRound + 1
        roundDuration == ParseInt(w.el.roundDuration)
        w1 == [w EXCEPT !.s.workoutState = "work",
                        !.s.currentRound = round,
                        !.el.roundCounter = RoundCounterText(round, w.s.totalRounds),
                        !.s.roundDuration = roundDuration,
                        !.s.endDate = Some(Num(w.s.endDate) + roundDuration * 1000)]
        w2 == Play(w1, Cue("bell_start"))
        w3 == IF w2.s.voiceEnabled THEN SetTimeout(w2, "roundAnnounce", 800) ELSE w2
        w4 == SetTimeout(w3, "comboStart", 2000)
    IN  RequestWakeLock(Entered(w4, "work"))

\* startWorkPhase()
StartWorkPhase(w) ==
    LET round == w.s.currentRound + 1
        roundDuration == ParseInt(w.el.roundDuration)
        w1 == [w EXCEPT !.s.workoutState = "work",
                        !.s.currentRound = round,
                        !.el.roundCounter = RoundCounterText(round, w.s.totalRounds),
                        !.s.roundDuration = roundDuration,
                        !.s.endDate = Some(Plus(w.now, Times(roundDuration, 1000)))]
        w2 == Play(w1, Cue("bell_start"))
        w3 == IF w2.s.voiceEnabled THEN SetTimeout(w2, "roundAnnounce", 800) ELSE w2
        w4 == SetTimeout(w3, "comboStart", 2000)
    IN  RequestWakeLock(Entered(w4, "work"))

\* startRestPhase()
StartRestPhase(w) ==
    LET w1 == ClearComboInterval([w EXCEPT !.s.workoutState = "rest"])
        restDuration == ParseInt(w1.el.restDuration)
        w2 == [w1 EXCEPT !.s.restDuration = restDuration,
                         !.s.endDate = Some(Plus(w1.now, Times(restDuration, 1000)))]
        w3 == Play(w2, Cue("bell_end"))
        w4 == IF w3.s.voiceEnabled THEN SetTimeout(w3, "restAnnounce", 600) ELSE w3
    IN  Entered(w4, "rest")

\* finishWorkout() that leaves the timer interval running
FinishWorkout_KeepsTimer(w) ==
    LET w1 == ClearComboInterval([w EXCEPT !.s.workoutState = "finished"])
        w2 == Play(w1, Cue("bell_end"))
        w3 == IF w2.s.voiceEnabled THEN SetTimeout(w2, "completeAnnounce", 600) ELSE w2
    IN  SaveWorkoutCompletion(ReleaseWakeLock(Entered(w3, "finished")))

\* finishWorkout()
FinishWorkout(w) ==
    LET w1 == ClearComboInterval(ClearTimerInterval([w EXCEPT !.s.workoutState = "finished"]))
        w2 == Play(w1, Cue("bell_end"))
        w3 == IF w2.s.voiceEnabled THEN SetTimeout(w2, "completeAnnounce", 600) ELSE w2
    IN  SaveWorkoutCompletion(ReleaseWakeLock(Entered(w3, "finished")))

\* handlePhaseComplete() that compares the round with > instead of >=
HandlePhaseComplete_OffByOne(w) ==
    LET w1 == [w EXCEPT !.fx.complete = TRUE]
    IN  IF w1.s.workoutState = "prepare" THEN StartWorkPhase(w1)
        ELSE IF w1.s.workoutState = "work"
             THEN IF w1.s.currentRound > w1.s.totalRounds
                  THEN FinishWorkout(w1)
                  ELSE StartRestPhase(w1)
        ELSE IF w1.s.workoutState = "rest" THEN StartWorkPhase(w1)
        ELSE w1

\* handlePhaseComplete()
HandlePhaseComplete(w) ==
    LET w1 == [w EXCEPT !.fx.complete = TRUE]
    IN  IF w1.s.workoutState = "prepare" THEN StartWorkPhase(w1)
        ELSE IF w1.s.workoutState = "work"
             THEN IF w1.s.currentRound >= w1.s.totalRounds
                  THEN FinishWorkout(w1)
                  ELSE StartRestPhase(w1)
        ELSE IF w1.s.workoutState = "rest" THEN StartWorkPhase(w1)
        ELSE w1

\* updateTimer() without the check for the paused state
UpdateTimer_NoPausedCheck(w) ==
    IF Falsy(w.s.endDate)
    THEN w
    ELSE LET remaining == Max(0, Get(w.s.endDate) - w.now)
             w1 == [w EXCEPT !.fx.cues = @ \cup CountdownCues(remaining)]
         IN  IF remaining <= 0 THEN HandlePhaseComplete(w1) ELSE w1

\* updateTimer(): the 50 ms tick
UpdateTimer(w) ==
    IF Falsy(w.s.endDate) \/ w.s.workoutState = "paused"
    THEN w
    ELSE LET remaining == Max(0, Get(w.s.endDate) - w.now)
             w1 == [w EXCEPT !.fx.cues = @ \cup CountdownCues(remaining)]
         IN  IF remaining <= 0 THEN HandlePhaseComplete(w1) ELSE w1

\* setControlsEnabled(isRunning)
SetControlsEnabled(w, isRunning) == [w EXCEPT !.el.controlsDisabled = ~isRunning]

\* startPrepare()
StartPrepare(w) ==
    LET w1 == [w EXCEPT !.s.workoutState = "prepare",
                        !.s.currentRound = 0,
                        !.s.endDate = Some(w.now + 3000),
                        !.h.log = <<"prepare">>,
                        !.h.entered = w.now]
        \* setInterval(updateTimer, 50): an interval the old handle still named
        \* would go on running, unreferenced
        w2 == [w1 EXCEPT !.t.orphanTicks = @ + (IF w1.s.timerInterval = "live" THEN 1 ELSE 0),
                         !.t.tickEpoch = w1.now,
                         !.s.timerInterval = "live"]
        w3 == UpdateTimer(w2)
        w4 == SetControlsEnabled(w3, TRUE)
    IN  Play(w4, Cue("get_ready"))

\* pauseWorkout()
PauseWorkout(w) ==
    LET w1 == [w EXCEPT !.s.workoutState = "paused",
                        !.s.pausedRemaining = Some(Num(w.s.endDate) - w.now),
                        !.h.pausedFrom = Some([phase |-> w.s.workoutState,
                                               remaining |-> Num(w.s.endDate) - w.now,
                                               at |-> w.now,
                                               round |-> w.s.currentRound])]
    IN  Play(ClearComboInterval(w1), Cue("pause"))

\* resumeWorkout() that leaves the deadline where it was before the pause
ResumeWorkout_KeepsDeadline(w, rv) ==
    LET wasWork == Includes(w.el.roundCounter, ToString(w.s.currentRound))
        w1 == [w EXCEPT !.s.workoutState = IF wasWork THEN "work" ELSE "rest"]
        w2 == IF w1.s.workoutState = "work" THEN StartComboInterval(w1, rv) ELSE w1
    IN  Play(w2, Cue("resume"))

\* resumeWorkout(); rv is the draw startComboInterval makes
ResumeWorkout(w, rv) ==
    LET wasWork == Includes(w.el.roundCounter, ToString(w.s.currentRound))
        w1 == [w EXCEPT !.s.workoutState = IF wasWork THEN "work" ELSE "rest",
                        !.s.endDate = Some(w.now + Num(w.s.pausedRemaining))]
        w2 == IF w1.s.workoutState = "work" THEN StartComboInterval(w1, rv) ELSE w1
    IN  Play(w2, Cue("resume"))

\* stopWorkout() that forgets to reset the round counter
StopWorkout_KeepsRound(w) ==
    LET w1 == [w EXCEPT !.s.workoutState = "idle",
                        !.el.roundCounter = RoundCounterText(0, w.s.totalRounds)]
        w2 == ClearComboInterval(ClearTimerInterval(w1))
    IN  ReleaseWakeLock(AudioManagerStop(SetControlsEnabled(w2, FALSE)))

\* stopWorkout()
StopWorkout(w) ==
    LET w1 == [w EXCEPT !.s.workoutState = "idle",
                        !.s.currentRound = 0,
                        !.el.roundCounter = RoundCounterText(0, w.s.totalRounds)]
        w2 == ClearComboInterval(ClearTimerInterval(w1))
    IN  ReleaseWakeLock(AudioManagerStop(SetControlsEnabled(w2, FALSE)))

\* resyncTimer() that extends the old deadline instead of starting from now
ResyncTimer_FromOldDeadline(w) ==
    IF w.s.workoutState = "work"
    THEN Play([w EXCEPT !.s.endDate = Some(Num(@) + w.s.roundDuration * 1000)], Cue("time_reset"))
    ELSE IF w.s.workoutState = "rest"
    THEN Play([w EXCEPT !.s.endDate = Some(Num(@) + w.s.restDuration * 1000)], Cue("time_reset"))
    ELSE w

\* resyncTimer()
ResyncTimer(w) ==
    IF w.s.workoutState = "work"
    THEN Play([w EXCEPT !.s.endDate = Some(Plus(w.now, Times(w.s.roundDuration, 1000)))],
              Cue("time_reset"))
    ELSE IF w.s.workoutState = "rest"
    THEN Play([w EXCEPT !.s.endDate = Some(Plus(w.now, Times(w.s.restDuration, 1000)))],
              Cue("time_reset"))
    ELSE w

\* the click listener of btnPlay with 'paused' falling into the start case
BtnPlayListener_PausedStarts(w, rv) ==
    LET w1 == [w EXCEPT !.s.totalRounds = ParseInt(w.el.roundCount)]
    IN  IF w1.s.workoutState \in {"idle", "finished", "paused"} THEN StartPrepare(w1)
        ELSE PauseWorkout(w1)

\* the click listener of btnPlay
BtnPlayListener(w, rv) ==
    LET w1 == [w EXCEPT !.s.totalRounds = ParseInt(w.el.roundCount)]
    IN  IF w1.s.workoutState \in {"idle", "finished"} THEN StartPrepare(w1)
        ELSE IF w1.s.workoutState = "paused" THEN ResumeWorkout(w1, rv)
        ELSE PauseWorkout(w1)

\* the change listener of the round-count control, after the control took value v
RoundCountListener(w) ==
    LET total == ParseInt(w.el.roundCount)
    IN  [w EXCEPT !.s.totalRounds = total,
                  !.el.roundCounter = RoundCounterText(w.s.currentRound, total)]

\* the callbacks handed to setTimeout, by kind; rv is the draw startComboInterval
\* makes, draws those generateCombo makes
TimeoutCallback(w, kind, rv, draws) ==
    IF kind = "roundAnnounce" THEN Play(w, RoundCue(w.s.currentRound))
    ELSE IF kind = "comboStart"
    THEN IF w.s.workoutState = "work"
         THEN LET w1 == GenerateCombo(w, draws)
              IN  IF ~w1.s.singleComboMode THEN StartComboInterval(w1, rv) ELSE w1
         ELSE w
    ELSE IF kind = "restAnnounce" THEN Play(w, Cue("rest"))
    ELSE IF kind = "completeAnnounce"
    THEN SetTimeout(Play(w, Cue("workout_complete")), "victory", 1500)
    ELSE Play(w, Cue("victory"))

-----------------------------------------------------------------------------
(* The state machine *)

\* the state once the script has run, on a device in the given time zone
AppInit(zone) ==
    /\ state = [workoutState |-> "idle", currentRound |-> 0, totalRounds |-> 6,
                roundDuration |-> 180, restDuration |-> 60,
                endDate |-> Null, pausedRemaining |-> Null,
                timerInterval |-> "null", comboInterval |-> "null",
                difficulty |-> "medium", comboIntervalMs |-> 6000,
                voiceEnabled |-> TRUE, singleComboMode |-> FALSE]
    /\ \E rd \in RoundDurationOptions, rs \in RestDurationOptions,
          rc \in RoundCountOptions, ci \in ComboIntervalOptions, dis \in BOOLEAN :
          elements = [roundCounter |-> RoundCounterText(0, 6),
                      roundDuration |-> rd, restDuration |-> rs, roundCount |-> rc,
                      comboIntervalSelect |-> ci, controlsDisabled |-> dis]
    /\ now = 0
    /\ timers = [timeouts |-> {}, orphanTicks |-> 0, combo |-> Null, orphanCombos |-> 0,
                 tickEpoch |-> 0]
    /\ usedComboIndices = [d \in Tiers |-> <<>>]
    /\ wakeLock = [wakeLock |-> FALSE, pending |-> 0, held |-> 0]
    /\ streak = StreakInit(zone)
    /\ breathing = BreathingInit
    /\ free = FreeInit
    /\ audio = [sounding |-> <<>>]
    /\ fx = [op |-> "init", from |-> "idle", cues |-> {},
             complete |-> FALSE, combo |-> FALSE, stale |-> FALSE, pick |-> Null, notes |-> {}]
    /\ hist = [log |-> <<>>, entered |-> 0, pausedFrom |-> Null, clicks |-> 0,
               cued |-> {}, seen |-> {}]

Init == AppInit("utc")

\* the handler's result becomes the next state
Commit(w) ==
    /\ state' = w.s
    /\ elements' = w.el
    /\ now' = w.now
    /\ timers' = w.t
    /\ usedComboIndices' = w.used
    /\ wakeLock' = w.wl
    /\ streak' = w.sk
    /\ breathing' = w.b
    /\ free' = w.f
    /\ audio' = w.au
    /\ fx' = w.fx
    /\ hist' = w.h

\* no callback is overdue: the browser runs a due timeout or combo interval
\* before more time passes
NothingDue ==
    /\ \A to \in timers.timeouts : to.due > now
    /\ timers.combo # Null => Get(timers.combo).due > now

\* something is scheduled or a session is under way
Busy ==
    \/ state.workoutState \notin {"idle", "finished"}
    \/ timers.timeouts # {}

\* wall-clock time passes
Advance ==
    \E d \in Steps :
        /\ Busy
        /\ NothingDue
        /\ now + d <= MaxNow
        /\ Commit([World("advance") EXCEPT !.now = now + d])

\* a 50 ms interval fires updateTimer
Tick ==
    /\ state.timerInterval = "live" \/ timers.orphanTicks > 0
    /\ Commit(UpdateTimer(World("tick")))

\* the combo interval fires
ComboTick ==
    \E draws \in WorkoutDraws :
        /\ timers.combo # Null
        /\ Get(timers.combo).due <= now
        /\ LET w == World("comboInterval")
               c == Get(timers.combo)
           IN  Commit(ComboIntervalCallback(
                          [w EXCEPT !.t.combo = Some([c EXCEPT !.due = now + c.period])], draws))

\* a pending timeout fires
Timeout ==
    \E to \in timers.timeouts, rv \in Variances, draws \in WorkoutDraws :
        /\ to.due <= now
        /\ LET w == World(to.kind)
           IN  Commit(TimeoutCallback([w EXCEPT !.t.timeouts = @ \ {to}, !.fx.stale = to.stale],
                                      to.kind, rv, draws))

\* the user may still act
CanClick == hist.clicks < MaxClicks

\* the world a click or a change of a control starts in
Click(op) == [World(op) EXCEPT !.h.clicks = @ + 1]

BtnPlayClick ==
    \E rv \in Variances :
        /\ CanClick
        /\ Commit(BtnPlayListener(Click("btnPlay"), rv))

\* btnStop is clickable while enabled; what was scheduled before the stop is
\* marked stale (history)
BtnStopClick ==
    /\ CanClick
    /\ ~elements.controlsDisabled
    /\ LET w == StopWorkout(Click("stop"))
       IN  Commit([w EXCEPT !.t.timeouts = {[to EXCEPT !.stale = TRUE] : to \in @}])

BtnResyncClick ==
    /\ CanClick
    /\ ~elements.controlsDisabled
    /\ Commit(ResyncTimer(Click("resync")))

\* the user picks another round count
RoundCountChange ==
    \E v \in RoundCountOptions :
        /\ CanClick
        /\ v # elements.roundCount
        /\ Commit(RoundCountListener([Click("roundCount") EXCEPT !.el.roundCount = v]))

\* the user picks another round duration (no listener: the value is read at
\* the next work phase)
RoundDurationChange ==
    \E v \in RoundDurationOptions :
        /\ CanClick
        /\ v # elements.roundDuration
        /\ Commit([Click("roundDuration") EXCEPT !.el.roundDuration = v])

\* the segmented controls (difficulty, voice, combo mode)
SetDifficulty ==
    \E v \in Difficulties :
        /\ CanClick
        /\ v # state.difficulty
        /\ Commit([Click("difficulty") EXCEPT !.s.difficulty = v])

SetVoice ==
    \E v \in BOOLEAN :
        /\ CanClick
        /\ v # state.voiceEnabled
        /\ Commit([Click("voice") EXCEPT !.s.voiceEnabled = v])

SetComboMode ==
    \E v \in BOOLEAN :
        /\ CanClick
        /\ v # state.singleComboMode
        /\ Commit([Click("comboMode") EXCEPT !.s.singleComboMode = v])

Next ==
    \/ Advance
    \/ Tick
    \/ ComboTick
    \/ Timeout
    \/ BtnPlayClick
    \/ BtnStopClick
    \/ BtnResyncClick
    \/ RoundCountChange
    \/ RoundDurationChange
    \/ SetDifficulty
    \/ SetVoice
    \/ SetComboMode

Spec == Init /\ [][Next]_vars

-----------------------------------------------------------------------------
(* A run without pause, resync or stop: the configuration is set while     *)
(* idle, the play button is clicked only to start                          *)

StartClick == state.workoutState \in {"idle", "finished"} /\ BtnPlayClick

ConfigureIdle ==
    /\ state.workoutState = "idle"
    /\ (RoundCountChange \/ RoundDurationChange \/ SetDifficulty \/ SetVoice \/ SetComboMode)

RunNext ==
    \/ Advance
    \/ Tick
    \/ ComboTick
    \/ Timeout
    \/ StartClick
    \/ ConfigureIdle

RunSpec == Init /\ [][RunNext]_vars

-----------------------------------------------------------------------------
(* Runs that are started and stopped, never paused or resynced *)

StopNext ==
    \/ RunNext
    \/ BtnStopClick

StopSpec == Init /\ [][StopNext]_vars

-----------------------------------------------------------------------------
(* pauseWorkout() and resumeWorkout() as commands of their own: the play    *)
(* button only starts, and each of the two functions may be called in any   *)
(* state, without the switch of the click listener in front of it           *)

PauseCommand ==
    /\ CanClick
    /\ Commit(PauseWorkout(Click("pauseWorkout")))

ResumeCommand ==
    \E rv \in Variances :
        /\ CanClick
        /\ Commit(ResumeWorkout(Click("resumeWorkout"), rv))

CommandNext ==
    \/ Advance
    \/ Tick
    \/ ComboTick
    \/ Timeout
    \/ StartClick
    \/ PauseCommand
    \/ ResumeCommand

CommandSpec == Init /\ [][CommandNext]_vars

-----------------------------------------------------------------------------
(* Sessions whose phases outlast the 12 s in which the combo schedule is    *)
(* silent: a rest of 20 s after a round of 2 s or of 20 s                   *)

LongRoundOptions == {<<"2">>, <<"2", "0">>}
LongRestOptions == {<<"2", "0">>}

LongInit ==
    /\ state = [workoutState |-> "idle", currentRound |-> 0, totalRounds |-> 6,
                roundDuration |-> 180, restDuration |-> 60,
                endDate |-> Null, pausedRemaining |-> Null,
                timerInterval |-> "null", comboInterval |-> "null",
                difficulty |-> "medium", comboIntervalMs |-> 6000,
                voiceEnabled |-> TRUE, singleComboMode |-> FALSE]
    /\ \E rd \in LongRoundOptions, rs \in LongRestOptions,
          rc \in RoundCountOptions, ci \in ComboIntervalOptions, dis \in BOOLEAN :
          elements = [roundCounter |-> RoundCounterText(0, 6),
                      roundDuration |-> rd, restDuration |-> rs, roundCount |-> rc,
                      comboIntervalSelect |-> ci, controlsDisabled |-> dis]
    /\ now = 0
    /\ timers = [timeouts |-> {}, orphanTicks |-> 0, combo |-> Null, orphanCombos |-> 0,
                 tickEpoch |-> 0]
    /\ usedComboIndices = [d \in Tiers |-> <<>>]
    /\ wakeLock = [wakeLock |-> FALSE, pending |-> 0, held |-> 0]
    /\ streak = StreakInit("utc")
    /\ breathing = BreathingInit
    /\ free = FreeInit
    /\ audio = [sounding |-> <<>>]
    /\ fx = [op |-> "init", from |-> "idle", cues |-> {},
             complete |-> FALSE, combo |-> FALSE, stale |-> FALSE, pick |-> Null, notes |-> {}]
    /\ hist = [log |-> <<>>, entered |-> 0, pausedFrom |-> Null, clicks |-> 0,
               cued |-> {}, seen |-> {}]

ComboNext ==
    \/ Advance
    \/ Tick
    \/ ComboTick
    \/ Timeout
    \/ BtnPlayClick
    \/ BtnStopClick

ComboSpec == LongInit /\ [][ComboNext]_vars

-----------------------------------------------------------------------------
(* The countdown with an interval that fires late: each callback runs at   *)
(* its due time or 25 ms after it, so two ticks may be 25, 50 or 75 ms apart *)

Lateness == {0, 25}

IsCountdownCue(cue) == cue.file \in {"last_10_seconds", "beep", "count"}

\* history: the second a tick found remaining, and whether it played that
\* second's cue; w0 is the world the tick started in, w1 the one it left
Observe(w0, w1) ==
    LET second == Max(0, Num(w0.s.endDate) - w0.now) \div 1000
        cued == \E c \in w1.fx.cues : IsCountdownCue(c)
    IN  IF w1.fx.complete THEN [w1 EXCEPT !.h.cued = {}, !.h.seen = {}]
        ELSE IF w0.s.endDate = Null \/ w0.s.workoutState = "paused" THEN w1
        ELSE [w1 EXCEPT !.h.cued = IF cued THEN @ \cup {second} ELSE @,
                        !.h.seen = @ \cup {second}]

\* the next instant at which the interval is due
NextTickTime == now + TickPeriod - ((now - timers.tickEpoch) % TickPeriod)

\* time passes until the interval is due and for as long as its callback is
\* late, then the callback runs
JitterTick ==
    \E late \in Lateness :
        /\ state.timerInterval = "live"
        /\ NothingDue
        /\ NextTickTime + late <= MaxJitterNow
        /\ LET w == [World("tick") EXCEPT !.now = NextTickTime + late]
           IN  Commit(Observe(w, UpdateTimer(w)))

JitterNext ==
    \/ JitterTick
    \/ Timeout
    \/ StartClick

JitterSpec == Init /\ [][JitterNext]_vars

-----------------------------------------------------------------------------
(* The countdown of an 11 s round with the interval firing exactly every    *)
(* 50 ms; one click on resync, between two ticks, sets the deadline off the *)
(* grid of the ticks                                                        *)

ExactRoundOptions == {<<"1", "1">>}
ClickOffsets == {10, 40}

ExactInit ==
    /\ state = [workoutState |-> "idle", currentRound |-> 0, totalRounds |-> 6,
                roundDuration |-> 180, restDuration |-> 60,
                endDate |-> Null, pausedRemaining |-> Null,
                timerInterval |-> "null", comboInterval |-> "null",
                difficulty |-> "medium", comboIntervalMs |-> 6000,
                voiceEnabled |-> TRUE, singleComboMode |-> FALSE]
    /\ \E rd \in ExactRoundOptions, rs \in RestDurationOptions,
          rc \in RoundCountOptions, ci \in ComboIntervalOptions, dis \in BOOLEAN :
          elements = [roundCounter |-> RoundCounterText(0, 6),
                      roundDuration |-> rd, restDuration |-> rs, roundCount |-> rc,
                      comboIntervalSelect |-> ci, controlsDisabled |-> dis]
    /\ now = 0
    /\ timers = [timeouts |-> {}, orphanTicks |-> 0, combo |-> Null, orphanCombos |-> 0,
                 tickEpoch |-> 0]
    /\ usedComboIndices = [d \in Tiers |-> <<>>]
    /\ wakeLock = [wakeLock |-> FALSE, pending |-> 0, held |-> 0]
    /\ streak = StreakInit("utc")
    /\ breathing = BreathingInit
    /\ free = FreeInit
    /\ audio = [sounding |-> <<>>]
    /\ fx = [op |-> "init", from |-> "idle", cues |-> {},
             complete |-> FALSE, combo |-> FALSE, stale |-> FALSE, pick |-> Null, notes |-> {}]
    /\ hist = [log |-> <<>>, entered |-> 0, pausedFrom |-> Null, clicks |-> 0,
               cued |-> {}, seen |-> {}]

\* time passes until the interval is due, and its callback runs at once
ExactTick ==
    /\ state.timerInterval = "live"
    /\ NothingDue
    /\ NextTickTime <= MaxExactNow
    /\ LET w == [World("tick") EXCEPT !.now = NextTickTime]
       IN  Commit(Observe(w, UpdateTimer(w)))

\* the first click after the start is on resync, 10 or 40 ms after a tick
ResyncOffGrid ==
    \E off \in ClickOffsets :
        /\ hist.clicks = 1
        /\ ~elements.controlsDisabled
        /\ state.timerInterval = "live"
        /\ (now - timers.tickEpoch) % TickPeriod = 0
        /\ NothingDue
        /\ LET w == ResyncTimer([Click("resync") EXCEPT !.now = now + off])
           IN  Commit([w EXCEPT !.h.seen = {}])

ExactNext ==
    \/ ExactTick
    \/ ComboTick
    \/ Timeout
    \/ StartClick
    \/ ResyncOffGrid

ExactSpec == ExactInit /\ [][ExactNext]_vars

-----------------------------------------------------------------------------
(* generateCombo() called again and again, with any draws, under a          *)
(* difficulty that may change between two calls                             *)

GenerateComboCall ==
    \E draws \in RandomDraws :
        /\ state.difficulty \in Tiers
        /\ Commit(GenerateCombo(World("generateCombo"), draws))

LibraryNext ==
    \/ GenerateComboCall
    \/ SetDifficulty

LibrarySpec == Init /\ [][LibraryNext]_vars

-----------------------------------------------------------------------------
(* The completion log over several days: workouts finish, midnights pass,   *)
(* the page is loaded again; the device is in any of the zones              *)

ZonedInit == \E z \in Zones : AppInit(z)

\* the next midnight passes: west of UTC the UTC day changes before the local
\* day, east of UTC after it
Midnight ==
    LET utcFirst == \/ streak.zone = "utc"
                    \/ streak.zone = "west" /\ streak.local = streak.today
                    \/ streak.zone = "east" /\ streak.local # streak.today
        localFirst == \/ streak.zone = "utc"
                      \/ streak.zone = "east" /\ streak.local = streak.today
                      \/ streak.zone = "west" /\ streak.local # streak.today
    IN  /\ streak.today < MaxDay
        /\ Commit([World("midnight") EXCEPT
                      !.sk.today = IF utcFirst THEN @ + 1 ELSE @,
                      !.sk.local = IF localFirst THEN @ + 1 ELSE @])

\* a workout (training or free timer) finishes: its completion is saved
WorkoutFinishes ==
    /\ state.workoutState \in {"idle", "finished"}
    /\ Commit(SaveWorkoutCompletion(World("saveWorkoutCompletion")))

\* the page is loaded again: the streak fields of `state` start from their
\* initial values and init() calls loadStreakData()
PageLoad ==
    /\ state.workoutState \in {"idle", "finished"}
    /\ Commit(LoadStreakData([World("pageLoad") EXCEPT !.sk.completions = <<>>,
                                                       !.sk.currentStreak = 0,
                                                       !.sk.totalWorkouts = 0]))

StreakNext ==
    \/ Midnight
    \/ WorkoutFinishes
    \/ PageLoad

StreakSpec == ZonedInit /\ [][StreakNext]_vars

-----------------------------------------------------------------------------
(* The breathing tab: the start button, the cycle buttons, the exercise     *)
(* cards and the one-second interval                                        *)

BreathStartClick ==
    /\ CanClick
    /\ Commit(StartBreathing(Click("breathStart")))

\* a card is clickable while pointer events are on
ExerciseCardClick ==
    \E e \in Exercises :
        /\ CanClick
        /\ ~breathing.cardsDisabled
        /\ e # breathing.currentExercise
        /\ Commit(ExerciseCardListener(Click("exerciseCard"), e))

CycleMinusClick ==
    /\ CanClick
    /\ Commit(CycleMinusListener(Click("cycleMinus")))

CyclePlusClick ==
    /\ CanClick
    /\ Commit(CyclePlusListener(Click("cyclePlus")))

\* a live one-second interval fires
BreathTick ==
    \E iv \in breathing.intervals :
        /\ breathing.intervals # {}
        /\ Commit(BreathIntervalCallback(World("breathTick"), iv))

BreathNext ==
    \/ BreathStartClick
    \/ ExerciseCardClick
    \/ CycleMinusClick
    \/ CyclePlusClick
    \/ BreathTick

BreathSpec == Init /\ [][BreathNext]_vars

-----------------------------------------------------------------------------
(* The audio manager on its own: cues are played, sources end               *)

\* some caller plays a file
AudioPlay ==
    \E file \in AudioFiles, priority \in BOOLEAN, loaded \in BOOLEAN :
        /\ Len(audio.sounding) < MaxSounding
        /\ Commit(AudioManagerPlay(World("play"), file, priority, loaded))

\* some caller stops the audio
AudioStop ==
    /\ audio.sounding # <<>>
    /\ Commit(AudioManagerStop(World("audioStop")))

\* a source reaches the end of its buffer
SourceEnded ==
    \E i \in 1..Len(audio.sounding) :
        /\ audio.sounding # <<>>
        /\ Commit([World("ended") EXCEPT
                      !.au.sounding = SubSeq(@, 1, i - 1) \o SubSeq(@, i + 1, Len(@))])

AudioNext ==
    \/ AudioPlay
    \/ AudioStop
    \/ SourceEnded

AudioSpec == Init /\ [][AudioNext]_vars

-----------------------------------------------------------------------------
(* An uninterrupted run in which the value of a duration control is         *)
(* missing: the control gives the empty string                              *)

DurationControls == {"roundDuration", "restDuration"}

\* the value of a duration control goes missing
DurationGoesMissing ==
    \E c \in DurationControls :
        /\ CanClick
        /\ elements[c] # <<>>
        /\ Commit([Click(c) EXCEPT !.el[c] = <<>>])

MissingNext ==
    \/ Advance
    \/ Tick
    \/ Timeout
    \/ StartClick
    \/ DurationGoesMissing

MissingSpec == Init /\ [][MissingNext]_vars

-----------------------------------------------------------------------------
(* Runs with a fixed configuration in which the play button starts, pauses  *)
(* and resumes; no stop, no resync                                          *)

PauseNext ==
    \/ Advance
    \/ Tick
    \/ ComboTick
    \/ Timeout
    \/ BtnPlayClick

PauseSpec == Init /\ [][PauseNext]_vars

-----------------------------------------------------------------------------
(* Runs with a fixed configuration driven by the three buttons: play (start, *)
(* pause, resume), stop and resync                                          *)

ButtonsNext ==
    \/ PauseNext
    \/ BtnStopClick
    \/ BtnResyncClick

ButtonsSpec == Init /\ [][ButtonsNext]_vars

-----------------------------------------------------------------------------
(* A workout started and stopped while the browser settles the wake lock    *)
(* requests                                                                 *)

\* a wake lock request is granted or refused
WakeLockResolve ==
    \E granted \in BOOLEAN :
        /\ wakeLock.pending > 0
        /\ Commit(WakeLockSettles(World("wakeLock"), granted))

WakeNext ==
    \/ Advance
    \/ Tick
    \/ Timeout
    \/ StartClick
    \/ BtnStopClick
    \/ WakeLockResolve

WakeSpec == Init /\ [][WakeNext]_vars

-----------------------------------------------------------------------------
(* The free timer, started, run and stopped *)

\* no callback of the free timer is overdue
FreeNothingDue ==
    /\ \A to \in free.timeouts : to.due > now
    /\ free.freeInterval # Null => Get(free.freeInterval).due > now

FreeAdvance ==
    \E d \in FreeSteps :
        /\ free.freeTimerActive \/ free.timeouts # {}
        /\ FreeNothingDue
        /\ now + d <= MaxFreeNow
        /\ Commit([World("advance") EXCEPT !.now = now + d])

\* the one-second interval of the free timer fires
FreeIntervalTick ==
    /\ free.freeInterval # Null
    /\ Get(free.freeInterval).due <= now
    /\ Commit(FreeIntervalCallback(World("freeInterval"), Get(free.freeInterval)))

\* a pending timeout of the free timer fires
FreeTimeout ==
    \E to \in free.timeouts :
        /\ to.due <= now
        /\ LET w == World(to.kind)
           IN  Commit(FreeTimeoutCallback([w EXCEPT !.f.timeouts = @ \ {to}], to))

BtnFreeStartClick ==
    \E rc \in FreeRoundCountOptions, rd \in FreeRoundDurationOptions,
       rs \in FreeRestDurationOptions :
        /\ CanClick
        /\ Commit(BtnFreeStartListener(Click("btnFreeStart"), rc, rd, rs))

\* btnFreeStop is displayed while a session is under way
BtnFreeStopClick ==
    /\ CanClick
    /\ free.freeTimerActive
    /\ Commit(BtnFreeStopListener(Click("btnFreeStop")))

FreeNext ==
    \/ FreeAdvance
    \/ FreeIntervalTick
    \/ FreeTimeout
    \/ BtnFreeStartClick
    \/ BtnFreeStopClick

FreeSpec == Init /\ [][FreeNext]_vars

-----------------------------------------------------------------------------
(* Claims *)

\* the steps that are callbacks of the browser or the passing of time
CallbackOps ==
    {"advance", "tick", "comboInterval", "roundAnnounce", "comboStart",
     "restAnnounce", "completeAnnounce", "victory"}

IsPrefix(a, b) == Len(a) <= Len(b) /\ SubSeq(b, 1, Len(a)) = a

\* prepare, then n work phases with a rest between each two, then finished
ExpectedLog(n) ==
    [i \in 1..(2 * n + 1) |->
        IF i = 1 THEN "prepare"
        ELSE IF i = 2 * n + 1 THEN "finished"
        ELSE IF i % 2 = 0 THEN "work" ELSE "rest"]

\* C1: in a run started from idle or finished, with a fixed configuration and
\* no pause, resync or stop, the phases entered so far are always the beginning
\* of prepare, work, rest, work, ..., work with totalRounds work phases and
\* totalRounds - 1 rests; the run is finished exactly when that sequence is
\* complete, and until then the tick interval is live with a deadline set
C1_FullRun ==
    /\ IsPrefix(hist.log, ExpectedLog(state.totalRounds))
    /\ state.workoutState = "finished" <=>
           (hist.log # <<>> /\ hist.log = ExpectedLog(state.totalRounds))
    /\ state.workoutState \in {"prepare", "work", "rest"} =>
           (state.timerInterval = "live" /\ state.endDate # Null)

\* a two-round run has finished: prepare, work, rest, work, finished
C1_Witness ==
    /\ state.workoutState = "finished"
    /\ state.totalRounds = 2
    /\ hist.log = <<"prepare", "work", "rest", "work", "finished">>

\* C2: every phase-complete transition follows the policy: from prepare to
\* work with currentRound = 1; from work to rest if currentRound < totalRounds
\* and to finished otherwise, currentRound unchanged; from rest to work with
\* currentRound incremented by exactly 1
C2_TransitionPolicy ==
    [][(fx'.op = "tick" /\ fx'.complete) =>
          CASE state.workoutState = "prepare" ->
                   state'.workoutState = "work" /\ state'.currentRound = 1
            [] state.workoutState = "work" ->
                   /\ state'.currentRound = state.currentRound
                   /\ state'.workoutState =
                          IF state.currentRound < state.totalRounds THEN "rest" ELSE "finished"
            [] state.workoutState = "rest" ->
                   state'.workoutState = "work" /\ state'.currentRound = state.currentRound + 1
            [] OTHER -> FALSE]_vars

\* a rest phase has just completed into round 2
C2_Witness ==
    /\ fx.op = "tick" /\ fx.complete /\ fx.from = "rest"
    /\ state.workoutState = "work" /\ state.currentRound = 2

\* C3: resume returns the session to the phase it was paused in (work or rest)
C3_ResumeRestoresPhase ==
    (fx.op = "btnPlay" /\ fx.from = "paused" /\ hist.pausedFrom # Null
        /\ Get(hist.pausedFrom).phase \in {"work", "rest"})
    => state.workoutState = Get(hist.pausedFrom).phase

\* C4: right after a resume the remaining time (deadline - now) is what it was
\* at the moment of the pause, and currentRound is what it was then
C4_PauseResumeRoundTrip ==
    (fx.op = "btnPlay" /\ fx.from = "paused") =>
        /\ hist.pausedFrom # Null
        /\ state.endDate # Null
        /\ Get(state.endDate) - now = Get(hist.pausedFrom).remaining
        /\ state.currentRound = Get(hist.pausedFrom).round

\* a session was resumed some time after it was paused with time left
C4_Witness ==
    /\ fx.op = "btnPlay" /\ fx.from = "paused"
    /\ hist.pausedFrom # Null
    /\ now > Get(hist.pausedFrom).at
    /\ Get(hist.pausedFrom).remaining > 0
    /\ Get(hist.pausedFrom).round = 1

\* C5: while the session is paused, no tick, timeout, combo interval or
\* passing of time fires a phase-complete transition or changes the phase,
\* currentRound or pausedRemaining
C5_PausedIsFrozen ==
    [][(state.workoutState = "paused" /\ fx'.op \in CallbackOps) =>
          /\ ~fx'.complete
          /\ state'.workoutState = "paused"
          /\ state'.currentRound = state.currentRound
          /\ state'.pausedRemaining = state.pausedRemaining]_vars

\* a tick ran while paused, after the deadline the pause froze had passed
C5_Witness ==
    /\ state.workoutState = "paused"
    /\ fx.op = "tick" /\ fx.from = "paused"
    /\ state.endDate # Null /\ now > Get(state.endDate)
    /\ Get(state.pausedRemaining) > 0

\* C6: resync in work sets the deadline to now + the round duration in force,
\* in rest to now + the rest duration in force, whatever had elapsed; the
\* phase and currentRound stay as they were
C6_ResyncFullDuration ==
    [][fx'.op = "resync" =>
          /\ state'.workoutState = state.workoutState
          /\ state'.currentRound = state.currentRound
          /\ state.workoutState = "work" =>
                 state'.endDate = Some(now' + state.roundDuration * 1000)
          /\ state.workoutState = "rest" =>
                 state'.endDate = Some(now' + state.restDuration * 1000)]_vars

\* a work phase was resynced after part of it had elapsed
C6_Witness ==
    /\ fx.op = "resync" /\ fx.from = "work"
    /\ now > hist.entered
    /\ state.endDate = Some(now + state.roundDuration * 1000)

\* C7: stop, in whatever state it is clicked, leaves the session idle with
\* currentRound = 0
C7_StopResets ==
    fx.op = "stop" => (state.workoutState = "idle" /\ state.currentRound = 0)

\* a session paused in round 1 was stopped
C7_Witness ==
    /\ fx.op = "stop" /\ fx.from = "paused"
    /\ hist.pausedFrom # Null /\ Get(hist.pausedFrom).round = 1

\* C8: a round-announcement, combo-start or rest-announcement timeout that was
\* scheduled before a stop plays no cue and generates no combo when it fires
C8_NoStaleCallbackEffect ==
    (fx.stale /\ fx.op \in {"roundAnnounce", "comboStart", "restAnnounce"})
    => (fx.cues = {} /\ ~fx.combo)

\* C9: pause called while paused, and resume called while not paused, change
\* neither the session state nor the scheduled callbacks
C9_InvalidCommandIsNoOp ==
    [][((fx'.op = "pauseWorkout" /\ state.workoutState = "paused")
        \/ (fx'.op = "resumeWorkout" /\ state.workoutState # "paused"))
       => (state' = state /\ timers' = timers)]_vars

\* C10: a click on play from idle or finished enters prepare with
\* currentRound = 0 and the deadline at exactly now + 3000 ms; from prepare,
\* work, rest and paused it never enters prepare
C10_StartOnlyFromIdleOrFinished ==
    fx.op = "btnPlay" =>
        IF fx.from \in {"idle", "finished"}
        THEN /\ state.workoutState = "prepare"
             /\ state.currentRound = 0
             /\ state.endDate = Some(now + 3000)
        ELSE state.workoutState # "prepare"

\* a finished workout was started again
C10_Witness ==
    /\ fx.op = "btnPlay" /\ fx.from = "finished"
    /\ state.workoutState = "prepare"
    /\ now > 0

\* C11: in every reachable state currentRound <= totalRounds
C11_RoundWithinTotal == state.currentRound <= state.totalRounds

\* C12: the deadline is defined exactly in prepare, work and rest; in idle,
\* paused and finished it is undefined
C12_DeadlineIffRunning ==
    (state.endDate # Null) <=> (state.workoutState \in {"prepare", "work", "rest"})

\* C13: at every phase-complete transition into work or rest the new deadline
\* is the time the transition runs plus the duration configured for the new
\* phase, however late the tick that detected the completion
C13_DeadlineFromNow ==
    [][(fx'.op = "tick" /\ fx'.complete) =>
          /\ state'.workoutState = "work" =>
                 state'.endDate = Some(now' + ParseInt(elements'.roundDuration) * 1000)
          /\ state'.workoutState = "rest" =>
                 state'.endDate = Some(now' + ParseInt(elements'.restDuration) * 1000)]_vars

\* the prepare phase, begun by the only click at time 0 and due at 3000,
\* completed a full second late
C13_Witness ==
    /\ fx.op = "tick" /\ fx.complete /\ fx.from = "prepare"
    /\ state.workoutState = "work"
    /\ hist.clicks = 1
    /\ now = 4000
    /\ state.endDate = Some(4000 + state.roundDuration * 1000)

\* the phase most recently entered is a work phase, running or paused
InWorkPhase ==
    /\ hist.log # <<>>
    /\ hist.log[Len(hist.log)] = "work"
    /\ state.workoutState \in {"work", "paused"}

\* C17: while single-combo mode is set, nothing that happens during a work
\* phase (tick, timeout, pause, resume) starts a repeating combo schedule
C17_SingleModeStartsNoSchedule ==
    [][(state.singleComboMode /\ InWorkPhase /\ fx'.op # "comboInterval"
           /\ timers'.combo # Null)
          => timers'.combo = timers.combo]_vars

\* C19: whenever a repeating combo schedule is running in a work phase while
\* the difficulty is hard, its base interval is at least 8000 ms
C19_HardIntervalFloor ==
    (state.difficulty = "hard" /\ state.comboInterval = "live" /\ InWorkPhase)
        => state.comboIntervalMs >= 8000

\* C16: no combo is generated, by the first firing after the settle delay or by
\* the repeating schedule, when fewer than 12000 ms remain in the work phase
C16_NoComboInLast12s ==
    fx.combo => Num(state.endDate) - now >= 12000

\* C18: the repeating schedule generates a combo only in a work phase, never
\* in the remainder of a rest or prepare phase that was paused and resumed
C18_ComboOnlyInWork ==
    (fx.op = "comboInterval" /\ fx.combo) => InWorkPhase

\* C14: within one phase no tick plays the countdown cue of a second whose cue
\* an earlier tick of the phase has played, however the ticks are spaced
C14_CueAtMostOncePerSecond ==
    [][(fx'.op = "tick" /\ \E c \in fx'.cues : IsCountdownCue(c))
          => (Max(0, Num(state.endDate) - now') \div 1000) \notin hist.cued]_vars

\* C15: with the interval firing exactly every 50 ms, a tick plays the
\* 'last 10 seconds' cue exactly when it is the first tick since the deadline
\* was set that finds 9 whole seconds remaining
C15_Last10AtFirstNine ==
    [][fx'.op = "tick" =>
          (Cue("last_10_seconds") \in fx'.cues
              <=> /\ state.endDate # Null
                  /\ Max(0, Get(state.endDate) - now') \div 1000 = 9
                  /\ 9 \notin hist.seen)]_vars

\* the tick after the one that found 10040 ms found 9990 ms and played the cue
C15_Witness ==
    /\ fx.op = "tick"
    /\ Cue("last_10_seconds") \in fx.cues
    /\ state.endDate # Null /\ Get(state.endDate) - now = 9990
    /\ 10 \in hist.seen

\* C20: the used list of every tier is free of duplicates, and the index
\* generateCombo has just selected is the last entry of its tier's list, so it
\* was not in the list of the epoch before
C20_NoRepeatInEpoch ==
    /\ \A d \in Tiers :
           \A i, j \in 1..Len(usedComboIndices[d]) :
               usedComboIndices[d][i] = usedComboIndices[d][j] => i = j
    /\ fx.pick # Null =>
           LET used == usedComboIndices[state.difficulty]
           IN  /\ used # <<>>
               /\ used[Len(used)] = Get(fx.pick)

\* an epoch of the hard tier is full while one of the medium tier is under way
C20_Witness ==
    /\ fx.pick # Null
    /\ state.difficulty = "hard"
    /\ Len(usedComboIndices["hard"]) = LibraryLength - 2
    /\ usedComboIndices["medium"] # <<>>

\* C21 (as stated): the used list of a tier is emptied only once fewer than 2
\* of its N indices are unused, that is after N - 1 draws of the epoch; until
\* then a call appends an index the list does not hold
C21_ResetAfterAllButOne ==
    [][fx'.pick # Null =>
          LET before == usedComboIndices[state'.difficulty]
              after == usedComboIndices'[state'.difficulty]
              pick == Get(fx'.pick)
          IN  IF LibraryLength - Len(before) < 2
              THEN after = <<pick>>
              ELSE /\ pick \notin Range(before)
                   /\ after = Append(before, pick)]_vars

\* C21 (amended): the used list of a tier is emptied once all but two of its
\* N indices are used, that is after N - 2 draws of the epoch; until then a
\* call appends an index the list does not hold, and the list never holds
\* more than N - 2 indices
C21_ResetAtAllButTwo ==
    [][fx'.pick # Null =>
          LET before == usedComboIndices[state'.difficulty]
              after == usedComboIndices'[state'.difficulty]
              pick == Get(fx'.pick)
          IN  /\ Len(before) <= LibraryLength - 2
              /\ ("reset" \in fx'.notes) = (Len(before) = LibraryLength - 2)
              /\ IF Len(before) = LibraryLength - 2
                 THEN after = <<pick>>
                 ELSE /\ pick \notin Range(before)
                      /\ after = Append(before, pick)]_vars

\* a call has just emptied the list of its tier and begun the next epoch
C21_Witness ==
    /\ fx.op = "generateCombo"
    /\ "reset" \in fx.notes
    /\ Len(usedComboIndices[state.difficulty]) = 1

\* C22: two calls of generateCombo in a row under one difficulty never select
\* the same combo
C22_NoImmediateRepeat ==
    [][(/\ fx.pick # Null
        /\ fx'.pick # Null
        /\ state'.difficulty = state.difficulty) => fx'.pick # fx.pick]_vars

\* C28: every firing of the combo interval draws the jitter of the delay that
\* follows it (randomVariance() is called at the firing)
C28_JitterDrawnAtEachFiring ==
    (fx.op = "comboInterval" /\ timers.combo # Null /\ InWorkPhase)
        => "randomVariance" \in fx.notes

\* the sum of the durations of a pattern's phases, in seconds
RECURSIVE CycleSeconds(_)
CycleSeconds(pattern) ==
    IF pattern = <<>> THEN 0 ELSE Head(pattern).duration + CycleSeconds(Tail(pattern))

\* C23: a breathing session whose totalCycles stays at C completes at the
\* callback that makes the (P x C)-th phase advance, which is callback number
\* C times the seconds of one cycle, P being the number of phases of the
\* pattern; while the session is active fewer advances and callbacks have run
C23_CompletesAfterAllPhases ==
    LET pattern == BREATHING_PATTERNS[breathing.currentExercise]
        obs == breathing.obs
    IN  obs.fixed =>
            /\ (fx.op = "breathTick" /\ Cue("breathe_complete") \in fx.cues) =>
                   /\ obs.advances = Len(pattern) * breathing.totalCycles
                   /\ obs.ticks = CycleSeconds(pattern) * breathing.totalCycles
            /\ breathing.active =>
                   /\ obs.advances < Len(pattern) * breathing.totalCycles
                   /\ obs.ticks < CycleSeconds(pattern) * breathing.totalCycles

\* a box session of 3 cycles has just completed, with 12 phase advances
C23_Witness ==
    /\ fx.op = "breathTick"
    /\ Cue("breathe_complete") \in fx.cues
    /\ breathing.obs.fixed
    /\ breathing.currentExercise = "box"
    /\ breathing.totalCycles = 3
    /\ breathing.obs.advances = 12
    /\ breathing.obs.ticks = 48

\* C24: the callback that brings currentCycle up to totalCycles ends the
\* session: breathingActive is false, no interval is left and the
\* completion cue is played, for the one time of the session; the cue is
\* played by no other step, and without an active session no interval is
\* live, so no later callback changes the cycle count or the phase
C24_CompletionStopsSession ==
    [][/\ (/\ fx'.op = "breathTick"
           /\ breathing'.currentCycle # breathing.currentCycle
           /\ breathing'.currentCycle >= breathing'.totalCycles)
          => /\ ~breathing'.active
             /\ breathing'.intervals = {}
             /\ Cue("breathe_complete") \in fx'.cues
             /\ breathing'.obs.completeCues = 1
       /\ Cue("breathe_complete") \in fx'.cues
          => /\ fx'.op = "breathTick"
             /\ breathing.active
             /\ breathing'.currentCycle >= breathing'.totalCycles
       /\ breathing'.obs.completeCues <= 1
       /\ breathing'.active \/ breathing'.intervals = {}
       /\ ~breathing.active /\ fx'.op = "breathTick"
          => /\ breathing'.currentCycle = breathing.currentCycle
             /\ breathing'.breathPhase = breathing.breathPhase]_vars

\* a session has just completed at its last cycle
C24_Witness ==
    /\ fx.op = "breathTick"
    /\ Cue("breathe_complete") \in fx.cues
    /\ ~breathing.active
    /\ breathing.currentCycle = breathing.totalCycles
    /\ breathing.intervals = {}

\* no value occurs twice in the sequence
NoDuplicate(seq) == \A i, j \in 1..Len(seq) : seq[i] = seq[j] => i = j

\* the log localStorage holds, empty while nothing was stored
Stored(sk) == IF sk.storage = Null THEN <<>> ELSE Get(sk.storage)

\* C25: no step removes a date from the completion log or from its stored
\* copy, and no date occurs twice in either
C25_LogAppendOnly ==
    [][/\ NoDuplicate(streak'.completions)
       /\ NoDuplicate(Stored(streak'))
       /\ Range(streak.completions) \subseteq Range(streak'.completions)
       /\ Range(Stored(streak)) \subseteq Range(Stored(streak'))]_vars

\* a workout finishes on a day that is in the log already, next to another day
C25_Witness ==
    /\ fx.op = "saveWorkoutCompletion"
    /\ "logged already" \in fx.notes
    /\ Len(streak.completions) >= 2

\* the streak the log amounts to on the given day: the length of the run of
\* logged days that ends at the latest logged day, if that is the day or the
\* day before
RECURSIVE RunEndingAt(_, _)
RunEndingAt(days, d) == IF d \in days THEN 1 + RunEndingAt(days, d - 1) ELSE 0

StreakOn(days, day) ==
    IF days = {} THEN 0
    ELSE LET latest == CHOOSE d \in days : \A e \in days : e <= d
         IN  IF day - latest \in {0, 1} THEN RunEndingAt(days, latest) ELSE 0

\* C26: after a save or a load, currentStreak is the streak the log amounts
\* to today, today being the calendar day by UTC (the day a save logs) or by
\* local time
C26_StreakMatchesLog ==
    fx.op \in {"saveWorkoutCompletion", "pageLoad"} =>
        \/ streak.currentStreak = StreakOn(Range(streak.completions), streak.today)
        \/ streak.currentStreak = StreakOn(Range(streak.completions), streak.local)

\* C29: when a priority cue has started, it is the only source sounding
C29_PriorityCueSoundsAlone ==
    (fx.op = "play" /\ "priority" \in fx.notes /\ fx.cues # {}) =>
        Len(audio.sounding) = 1

\* C30: with the workout idle or finished, no breathing session and no wake
\* lock request under way, the browser holds no wake lock
C30_NoLockHeldAfterEnd ==
    (/\ state.workoutState \in {"idle", "finished"}
     /\ ~breathing.active
     /\ wakeLock.pending = 0) => wakeLock.held = 0

\* C27: the deadline is never NaN, whatever the duration controls give
C27_DeadlineIsNeverNaN == state.endDate # Some(NaN)

\* C31: a run that is paused and resumed any number of times, with no stop
\* or resync, is finished only after the phases of a run without pauses:
\* prepare, totalRounds work phases with a rest between each two
C31_PausesKeepPhaseSequence ==
    state.workoutState = "finished" => hist.log = ExpectedLog(state.totalRounds)

\* C32: no timer interval runs unreferenced, and the one state.timerInterval
\* names is live exactly while the workout is in prepare, work, rest or paused
C32_OneTickIntervalWhileRunning ==
    /\ timers.orphanTicks = 0
    /\ state.timerInterval = "live" <=>
           state.workoutState \in {"prepare", "work", "rest", "paused"}

\* a workout started again after a stop is paused, its interval live
C32_Witness ==
    /\ state.workoutState = "paused"
    /\ state.timerInterval = "live"
    /\ hist.clicks = 4
    /\ fx.op = "btnPlay"
    /\ fx.from = "work"

\* C33: no combo interval runs unreferenced, the one state.comboInterval
\* names is the only live one, and it is live only while the workout is in
\* the work state
C33_OneComboIntervalOnlyInWork ==
    /\ timers.orphanCombos = 0
    /\ timers.combo # Null <=> state.comboInterval = "live"
    /\ timers.combo # Null => state.workoutState = "work"

\* the comboStart timeout of the first round starts the schedule after the
\* round was paused and resumed, a resume having started one already
C33_Witness ==
    /\ fx.op = "comboStart"
    /\ "randomVariance" \in fx.notes
    /\ timers.combo # Null
    /\ Get(timers.combo).due - Get(timers.combo).period = now
    /\ state.workoutState = "work"
    /\ state.currentRound = 1
    /\ hist.clicks >= 3

\* C34: a free-timer session is ended by the user or, 5 s after its last
\* round finished, by the timeout its own completion set; a timeout set by an
\* earlier session does not end it
C34_OnlyOwnCompletionEndsSession ==
    \A e \in free.ended :
        \/ e.by = "user"
        \/ /\ e.setIn = e.session
           /\ e.finished # Null
           /\ e.at = Get(e.finished) + 5000

====
